---- MODULE Spec2Model ----
(***************************************************************************)
(* A model of go-timecode (src/timecode.go): the Timecode value type, its  *)
(* decomposition into hour/minute/second/millisecond and recomposition,    *)
(* the formatters, and the regular-expression based parser.                *)
(*                                                                         *)
(* Timecode is an int64 and the components are uint64.  A 64-bit word is   *)
(* modelled as a little-endian sequence of NLimbs limbs of LimbBits bits,  *)
(* so that every operation wraps modulo 2^64 exactly as the Go code does.  *)
(* int64 and uint64 share the representation: a conversion between them    *)
(* (uint64(t), Timecode(u)) keeps the bit pattern.                         *)
(* A Go string is modelled as a sequence of one-character strings.         *)
(***************************************************************************)
EXTENDS Integers, Sequences, FiniteSets, TLC

VARIABLES
    t0,        \* the Timecode a run starts from (value runs)
    p0,        \* the arguments of FromParams a run starts from (params runs)
    s0,        \* the string a run starts from (parse runs)
    t,         \* the current Timecode
    parts,     \* the last result of HourMinuteSecondMilli and IsNegative
    text,      \* the last formatted string
    err,       \* TRUE iff the last Parse returned a non-nil error
    arg,       \* the argument of the last With... call
    withMilli, \* the withMilli argument of the last Format call
    sep,       \* the milliSeperator argument of the last Format call
    hist,      \* the operations applied so far, oldest first
    kind       \* what the run starts from: "params", "value" or "text"

vars == <<kind, t0, p0, s0, t, parts, text, err, arg, withMilli, sep, hist>>

(***************************************************************************)
(* 64-bit words                                                            *)
(***************************************************************************)
NLimbs == 8
LimbBits == 8
Base == 2 ^ LimbBits
TopBit == Base \div 2

\* The word of a natural number below 2^31 (zero-extended to n limbs).
RECURSIVE NatLimbs(_, _)
NatLimbs(x, n) ==
    IF n = 0 THEN <<>> ELSE <<x % Base>> \o NatLimbs(x \div Base, n - 1)

W(x) == NatLimbs(x, NLimbs)

\* a + b, wrapping: the carry out of the last limb is dropped.
RECURSIVE AddFrom(_, _, _, _)
AddFrom(a, b, i, carry) ==
    IF i > Len(a) THEN <<>>
    ELSE LET s == a[i] + b[i] + carry
         IN  <<s % Base>> \o AddFrom(a, b, i + 1, s \div Base)

AddW(a, b) == AddFrom(a, b, 1, 0)

\* a * k for a scale factor 0 <= k < 2^22, wrapping.
RECURSIVE MulFrom(_, _, _, _)
MulFrom(a, k, i, carry) ==
    IF i > Len(a) THEN <<>>
    ELSE LET p == a[i] * k + carry
         IN  <<p % Base>> \o MulFrom(a, k, i + 1, p \div Base)

MulW(a, k) == MulFrom(a, k, 1, 0)

\* a * -1, wrapping (two's complement: -MinInt64 = MinInt64).
NegW(a) ==
    AddFrom([i \in 1..Len(a) |-> Base - 1 - a[i]], NatLimbs(1, Len(a)), 1, 0)

\* Unsigned a / d and a % d for a divisor 0 < d < 2^22.
RECURSIVE DivFrom(_, _, _, _)
DivFrom(a, d, i, rem) ==
    IF i = 0 THEN [q |-> <<>>, r |-> rem]
    ELSE LET cur  == rem * Base + a[i]
             rest == DivFrom(a, d, i - 1, cur % d)
         IN  [q |-> Append(rest.q, cur \div d), r |-> rest.r]

DivW(a, d) == DivFrom(a, d, Len(a), 0).q
RemW(a, d) == DivFrom(a, d, Len(a), 0).r
ModW(a, d) == W(RemW(a, d))

(***************************************************************************)
(* The Value Model                                                         *)
(***************************************************************************)
Zero == W(0)
Millisecond == 1
Second == Millisecond * 1000
Minute == Second * 60
Hour == Minute * 60

\* t < Zero on an int64: the sign bit is set.
IsNegative(tc) == tc[NLimbs] >= TopBit

HourMinuteSecondMilli_NoAbs(tc) ==
    LET i0 == tc
        i1 == DivW(i0, 1000)
        i2 == DivW(i1, 60)
        i3 == DivW(i2, 60)
    IN  [hour |-> i3, minute |-> ModW(i2, 60),
         second |-> ModW(i1, 60), milli |-> ModW(i0, 1000)]

HourMinuteSecondMilli(tc) ==
    LET i0 == IF IsNegative(tc) THEN NegW(tc) ELSE tc
        i1 == DivW(i0, 1000)
        i2 == DivW(i1, 60)
        i3 == DivW(i2, 60)
    IN  [hour |-> i3, minute |-> ModW(i2, 60),
         second |-> ModW(i1, 60), milli |-> ModW(i0, 1000)]

FromParams_NoNegate(negative, hour, minute, second, milli) ==
    AddW(AddW(AddW(MulW(milli, Millisecond), MulW(second, Second)),
              MulW(minute, Minute)),
         MulW(hour, Hour))

FromParams(negative, hour, minute, second, milli) ==
    LET total == AddW(AddW(AddW(MulW(milli, Millisecond), MulW(second, Second)),
                           MulW(minute, Minute)),
                      MulW(hour, Hour))
    IN  IF negative THEN NegW(total) ELSE total

WithHours_DropSign(tc, hour) ==
    LET c == HourMinuteSecondMilli(tc)
    IN  FromParams(FALSE, hour, c.minute, c.second, c.milli)

WithHours(tc, hour) ==
    LET c == HourMinuteSecondMilli(tc)
    IN  FromParams(IsNegative(tc), hour, c.minute, c.second, c.milli)

WithMinutes(tc, minutes) ==
    LET c == HourMinuteSecondMilli(tc)
    IN  FromParams(IsNegative(tc), c.hour, minutes, c.second, c.milli)

WithSeconds(tc, seconds) ==
    LET c == HourMinuteSecondMilli(tc)
    IN  FromParams(IsNegative(tc), c.hour, c.minute, seconds, c.milli)

WithMilli(tc, milli) ==
    LET c == HourMinuteSecondMilli(tc)
    IN  FromParams(IsNegative(tc), c.hour, c.minute, c.second, milli)

(***************************************************************************)
(* The Text Codec: formatting                                              *)
(***************************************************************************)
DigitChars == <<"0", "1", "2", "3", "4", "5", "6", "7", "8", "9">>
Digit == {DigitChars[i] : i \in 1..10}
DigitVal(c) == (CHOOSE i \in 1..10 : DigitChars[i] = c) - 1

\* The decimal digits of an unsigned word, most significant first; none for 0.
RECURSIVE DecimalDigits(_)
DecimalDigits(w) ==
    IF w = Zero THEN <<>>
    ELSE DecimalDigits(DivW(w, 10)) \o <<DigitChars[RemW(w, 10) + 1]>>

RECURSIVE ZeroPad(_, _)
ZeroPad(ds, width) ==
    IF Len(ds) >= width THEN ds ELSE ZeroPad(<<"0">> \o ds, width)

SprintfUint_NoPad(w, width) ==
    IF w = Zero THEN <<"0">> ELSE DecimalDigits(w)

\* fmt.Sprintf("%0<width>d", w) for a uint64 w.
SprintfUint(w, width) ==
    ZeroPad(IF w = Zero THEN <<"0">> ELSE DecimalDigits(w), width)

Format_NoSign(tc, wm, milliSeperator) ==
    LET c == HourMinuteSecondMilli(tc)
    IN  SprintfUint(c.hour, 2) \o <<":">> \o SprintfUint(c.minute, 2)
            \o <<":">> \o SprintfUint(c.second, 2)
            \o (IF wm THEN milliSeperator \o SprintfUint(c.milli, 3) ELSE <<>>)

Format(tc, wm, milliSeperator) ==
    LET negative == IsNegative(tc)
        c        == HourMinuteSecondMilli(tc)
        result   ==
            IF wm
            THEN SprintfUint(c.hour, 2) \o <<":">> \o SprintfUint(c.minute, 2)
                     \o <<":">> \o SprintfUint(c.second, 2)
                     \o milliSeperator \o SprintfUint(c.milli, 3)
            ELSE SprintfUint(c.hour, 2) \o <<":">> \o SprintfUint(c.minute, 2)
                     \o <<":">> \o SprintfUint(c.second, 2)
    IN  IF negative THEN <<"-">> \o result ELSE result

FormatDot(tc) == Format(tc, TRUE, <<".">>)

FormatComma(tc) == Format(tc, TRUE, <<",">>)

String(tc) == FormatDot(tc)

(***************************************************************************)
(* The Text Codec: the regular expression and Parse                        *)
(*   ([-])?([01]\d|2[0123]):([012345]\d):([012345]\d)(?:[.,](\d{3}))?      *)
(***************************************************************************)
LitAt(s, j, c) == j >= 1 /\ j <= Len(s) /\ s[j] = c

DigitAt(s, j) == j >= 1 /\ j <= Len(s) /\ s[j] \in Digit

\* ([01]\d|2[0123]) at position j
HourAt_AnyTwoDigits(s, j) == DigitAt(s, j) /\ DigitAt(s, j + 1)

HourAt(s, j) ==
    \/ (LitAt(s, j, "0") \/ LitAt(s, j, "1")) /\ DigitAt(s, j + 1)
    \/ LitAt(s, j, "2") /\ j + 1 <= Len(s) /\ s[j + 1] \in {"0", "1", "2", "3"}

\* ([012345]\d) at position j
SixtyAt(s, j) ==
    /\ j >= 1 /\ j <= Len(s)
    /\ s[j] \in {"0", "1", "2", "3", "4", "5"}
    /\ DigitAt(s, j + 1)

\* hours:minutes:seconds with the hours at position j
CoreAt(s, j) ==
    /\ HourAt(s, j) /\ LitAt(s, j + 2, ":")
    /\ SixtyAt(s, j + 3) /\ LitAt(s, j + 5, ":")
    /\ SixtyAt(s, j + 6)

\* [.,](\d{3}) with the separator at position j
MilliAt(s, j) ==
    /\ (LitAt(s, j, ".") \/ LitAt(s, j, ","))
    /\ DigitAt(s, j + 1) /\ DigitAt(s, j + 2) /\ DigitAt(s, j + 3)

\* The pattern with (\d{1,3}) for the milliseconds.
RegexMatchAt_LooseMilli(s, i) ==
    LET j == IF LitAt(s, i, "-") /\ CoreAt(s, i + 1) THEN i + 1 ELSE i
    IN  IF ~CoreAt(s, j) THEN <<>>
        ELSE LET ms == (LitAt(s, j + 8, ".") \/ LitAt(s, j + 8, ","))
                           /\ DigitAt(s, j + 9)
                 e  == IF ~ms THEN j + 7
                       ELSE IF ~DigitAt(s, j + 10) THEN j + 9
                       ELSE IF ~DigitAt(s, j + 11) THEN j + 10
                       ELSE j + 11
             IN  << SubSeq(s, i, e),
                    SubSeq(s, i, j - 1),
                    SubSeq(s, j, j + 1),
                    SubSeq(s, j + 3, j + 4),
                    SubSeq(s, j + 6, j + 7),
                    IF ms THEN SubSeq(s, j + 9, e) ELSE <<>> >>

\* The submatches <<m[0], ..., m[5]>> of the match that starts at position i,
\* or <<>> when the pattern does not match there.  Both optional groups are
\* greedy; a group that did not take part in the match is the empty string.
RegexMatchAt(s, i) ==
    LET j == IF LitAt(s, i, "-") /\ CoreAt(s, i + 1) THEN i + 1 ELSE i
    IN  IF ~CoreAt(s, j) THEN <<>>
        ELSE LET ms == MilliAt(s, j + 8)
                 e  == IF ms THEN j + 11 ELSE j + 7
             IN  << SubSeq(s, i, e),
                    SubSeq(s, i, j - 1),
                    SubSeq(s, j, j + 1),
                    SubSeq(s, j + 3, j + 4),
                    SubSeq(s, j + 6, j + 7),
                    IF ms THEN SubSeq(s, j + 9, j + 11) ELSE <<>> >>

RECURSIVE FindFrom(_, _)
FindFrom(s, i) ==
    IF i > Len(s) THEN <<>>
    ELSE LET m == RegexMatchAt(s, i)
         IN  IF Len(m) # 0 THEN m ELSE FindFrom(s, i + 1)

FindStringSubmatch_Anchored(s) == RegexMatchAt(s, 1)

RECURSIVE FindLastFrom(_, _)
FindLastFrom(s, i) ==
    IF i < 1 THEN <<>>
    ELSE LET m == RegexMatchAt(s, i)
         IN  IF Len(m) # 0 THEN m ELSE FindLastFrom(s, i - 1)

FindStringSubmatch_Rightmost(s) == FindLastFrom(s, Len(s))

\* Regex.FindStringSubmatch: the leftmost match, nil (<<>>) when there is none.
FindStringSubmatch(s) == FindFrom(s, 1)

\* strconv.ParseUint(value, 10, 64): a syntax error for the empty string and
\* for any non-digit.  (The groups of Regex hold at most three digits, so the
\* range error of a value above 2^64-1 cannot arise.)
RECURSIVE DecimalValue(_, _)
DecimalValue(value, acc) ==
    IF Len(value) = 0 THEN acc
    ELSE DecimalValue(Tail(value), AddW(MulW(acc, 10), W(DigitVal(Head(value)))))

ParseUint(value) ==
    IF Len(value) = 0 \/ \E k \in 1..Len(value) : value[k] \notin Digit
    THEN [v |-> Zero, ok |-> FALSE]
    ELSE [v |-> DecimalValue(value, Zero), ok |-> TRUE]

\* regexMatch is indexed from 0 in the source and from 1 here.
parseNumber(regexMatch, i) == ParseUint(regexMatch[i + 1]).v

isNotEmpty(regexMatch, i) == regexMatch[i + 1] # <<>>

Parse(str) ==
    LET m == FindStringSubmatch(str)
    IN  IF Len(m) = 0
        THEN [t |-> Zero, err |-> TRUE]
        ELSE [t   |-> FromParams(isNotEmpty(m, 1), parseNumber(m, 2),
                                 parseNumber(m, 3), parseNumber(m, 4),
                                 parseNumber(m, 5)),
              err |-> FALSE]

(***************************************************************************)
(* Inputs.  Every operation is a pure function, so a run draws its input   *)
(* in the initial state and then applies operations to it.                 *)
(***************************************************************************)
EdgeSpread == 1
MaxPre == 1
MaxPost == 1

\* The values within EdgeSpread of e, kept inside lo..hi.
Near(e, lo, hi) == {x \in (e - EdgeSpread)..(e + EdgeSpread) : lo <= x /\ x <= hi}

HourSamples ==
    Near(0, 0, 10000) \cup Near(23, 0, 10000) \cup Near(100, 0, 10000)
        \cup Near(123, 0, 10000) \cup Near(10000, 0, 10000)
MinuteSamples == Near(0, 0, 59) \cup Near(59, 0, 59)
SecondSamples == Near(0, 0, 59) \cup Near(59, 0, 59)
MilliSamples == Near(0, 0, 999) \cup Near(999, 0, 999)

ParamSamples ==
    [negative : BOOLEAN, hour : HourSamples, minute : MinuteSamples,
     second : SecondSamples, milli : MilliSamples]

\* Words at the ends of the int64 range: 0, -1, MinInt64, MaxInt64 and
\* their neighbours.
MinInt64 == <<0, 0, 0, 0, 0, 0, 0, TopBit>>
MaxInt64 == <<Base - 1, Base - 1, Base - 1, Base - 1,
              Base - 1, Base - 1, Base - 1, TopBit - 1>>
ExtremeWords ==
    {<<low, b, b, b, b, b, b, top>> :
        low \in {0, 1, Base - 1}, b \in {0, Base - 1},
        top \in {0, TopBit - 1, TopBit, Base - 1}}

\* Timecodes a Go program can hold: sums of the units, either sign, with
\* the smaller components at the low or the high end of their range.
UnitSums ==
    {<<neg, h, m, s, ms>> \in
        BOOLEAN \X HourSamples \X MinuteSamples \X SecondSamples \X MilliSamples :
        \E k \in 0..EdgeSpread :
            m \in {k, 59 - k} /\ s \in {k, 59 - k} /\ ms \in {k, 999 - k}}

TimecodeSamples ==
    {LET total == AddW(AddW(AddW(MulW(W(u[5]), Millisecond), MulW(W(u[4]), Second)),
                            MulW(W(u[3]), Minute)),
                       MulW(W(u[2]), Hour))
     IN  IF u[1] THEN NegW(total) ELSE total : u \in UnitSums}
        \cup ExtremeWords

\* Arguments of the With... methods: in range, just out of range, and for
\* the hours also beyond what an int64 of milliseconds can hold.
HourArgs ==
    {W(h) : h \in {0, 9, 23, 100}} \cup
    {<<239, 195, 242, 133, 84, 2, 0, 0>>,
     <<Base - 1, Base - 1, Base - 1, Base - 1, Base - 1, Base - 1, Base - 1, Base - 1>>}
MinuteArgs == {W(m) : m \in MinuteSamples \cup {9, 70}}
SecondArgs == {W(x) : x \in SecondSamples \cup {9, 70}}
MilliArgs == {W(x) : x \in MilliSamples \cup {9, 1000}}

Separators == {<<".">>, <<",">>, <<";">>, <<>>, <<"i", "r">>}

\* Strings for Parse: a timecode or a near miss, inside up to MaxPre
\* characters before it and MaxPost after it.
Cores ==
    { <<>>,
      <<"0", "0", ":", "0", "0", ":", "0", "0", ".", "0", "0", "0">>,
      <<"0", "0", ":", "0", "0", ":", "0", "0", ",", "0", "0", "1">>,
      <<"0", "1", ":", "0", "2", ":", "0", "3", ".", "4", "5", "6">>,
      <<"-", "0", "1", ":", "0", "2", ":", "0", "3", ".", "4", "5", "6">>,
      <<"2", "3", ":", "5", "9", ":", "5", "9", ",", "9", "9", "9">>,
      <<"0", "0", ":", "0", "0", ":", "0", "1">>,
      <<"1", "9", ":", "0", "5", ":", "4", "0">>,
      <<"n", "o", "t", ".", "a", ".", "t", "i", "m", "e", "c", "o", "d", "e">>,
      <<"0", "0", ":", "0", "0", ":", "0", "d">>,
      <<"0", "0", ":", "0", "d", ":", "0", "0">>,
      <<"0", "d", ":", "0", "0", ":", "0", "0">>,
      <<"0", "0", ":", "0", "0">>,
      <<"0", "0", ":", "0", "0", ":", "-", "0", "0">>,
      <<"2", "4", ":", "0", "0", ":", "0", "0">>,
      <<"0", "0", ":", "6", "0", ":", "0", "0">>,
      <<"0", "0", ":", "0", "0", ":", "6", "0">>,
      <<"0", "0", ":", "0", "0", ":", "0", "1", ".", "z", "z", "z">>,
      <<"0", "1", ":", "0", "2", ":", "0", "3", ".", "4", "5">>,
      <<"0", "1", ":", "0", "2", ":", "0", "3", ";", "4", "5", "6">>,
      <<"0", "1", ":", "0", "2", ":", "0", "3", ".", "4", "5", "6", "7">>,
      <<"1", ":", "0", "2", ":", "0", "3">>,
      <<"0", "1", ":", "0", "2", ":", "0">>,
      <<"0", "0", ":", "0", "0", ":", "0", "1", ".", "0", "0", ":", "0", "0", ":", "0", "2">>,
      <<"2", "4", ":", "0", "0", ":", "0", "1", "-", "0", "0", ":", "0", "0", ":", "0", "2", ",", "5">>,
      <<"-", "1", "0", "0", ":", "0", "2", ":", "0", "3", ".", "0", "0", "4">>,
      <<"-", "0", "0", ":", "0", "0", ":", "0", "0", ".", "0", "0", "0">>,
      <<"-", "-", "2", "3", ":", "0", "0", ":", "0", "0">>,
      <<"1", "2", ":", "3", "4", ":", "5", "6", ",", "7", "8", "9", "-", "2", "3", ":", "0", "0", ":", "0", "0">> }
PadChars == {"-", "0", "7", ":", ".", "z"}
Pads(n) == UNION {[1..k -> PadChars] : k \in 0..n}
TextSamples == {pre \o core \o post : pre \in Pads(MaxPre), core \in Cores, post \in Pads(MaxPost)}

NoParams == [negative |-> FALSE, hour |-> 0, minute |-> 0, second |-> 0, milli |-> 0]
NoParts == [negative |-> FALSE, hour |-> Zero, minute |-> Zero,
            second |-> Zero, milli |-> Zero]

(***************************************************************************)
(* Runs                                                                    *)
(***************************************************************************)
Fresh ==
    /\ parts = NoParts /\ text = <<>> /\ err = FALSE /\ arg = Zero
    /\ withMilli = FALSE /\ sep = <<>> /\ hist = <<>>

\* A run that starts from the arguments of FromParams.
InitParams ==
    /\ kind = "params" /\ p0 \in ParamSamples
    /\ t0 = Zero /\ s0 = <<>> /\ t = Zero /\ Fresh

\* A run that starts from a Timecode.
InitValue ==
    /\ kind = "value" /\ t0 \in TimecodeSamples
    /\ p0 = NoParams /\ s0 = <<>> /\ t = t0 /\ Fresh

\* A run that starts from a string.
InitText ==
    /\ kind = "text" /\ s0 \in TextSamples
    /\ p0 = NoParams /\ t0 = Zero /\ t = Zero /\ Fresh

Init == InitParams \/ InitValue \/ InitText

\* t := FromParams(negative, hour, minute, second, milli) on the run's arguments
ComposeParams ==
    /\ kind = "params" /\ hist = <<>>
    /\ t' = FromParams(p0.negative, W(p0.hour), W(p0.minute), W(p0.second), W(p0.milli))
    /\ hist' = Append(hist, "FromParams")
    /\ UNCHANGED <<kind, t0, p0, s0, parts, text, err, arg, withMilli, sep>>

\* negative := t.IsNegative(); hour, minute, second, milli := t.HourMinuteSecondMilli()
Decompose ==
    /\ \/ kind = "value" /\ hist = <<>>
       \/ kind = "params" /\ hist = <<"FromParams">>
       \/ kind = "value" /\ Len(hist) = 1
            /\ hist[1] \in {"WithHours", "WithMinutes", "WithSeconds", "WithMilli"}
    /\ parts' = [negative |-> IsNegative(t)] @@ HourMinuteSecondMilli(t)
    /\ hist' = Append(hist, "HourMinuteSecondMilli")
    /\ UNCHANGED <<kind, t0, p0, s0, t, text, err, arg, withMilli, sep>>

\* t := FromParams(negative, hour, minute, second, milli) on the last decomposition
Recompose ==
    /\ kind = "value" /\ hist = <<"HourMinuteSecondMilli">>
    /\ t' = FromParams(parts.negative, parts.hour, parts.minute, parts.second, parts.milli)
    /\ hist' = Append(hist, "FromParams")
    /\ UNCHANGED <<kind, t0, p0, s0, parts, text, err, arg, withMilli, sep>>

DoWithHours ==
    /\ kind = "value" /\ hist = <<>>
    /\ \E hour \in HourArgs : arg' = hour /\ t' = WithHours(t, hour)
    /\ hist' = Append(hist, "WithHours")
    /\ UNCHANGED <<kind, t0, p0, s0, parts, text, err, withMilli, sep>>

DoWithMinutes ==
    /\ kind = "value" /\ hist = <<>>
    /\ \E minutes \in MinuteArgs : arg' = minutes /\ t' = WithMinutes(t, minutes)
    /\ hist' = Append(hist, "WithMinutes")
    /\ UNCHANGED <<kind, t0, p0, s0, parts, text, err, withMilli, sep>>

DoWithSeconds ==
    /\ kind = "value" /\ hist = <<>>
    /\ \E seconds \in SecondArgs : arg' = seconds /\ t' = WithSeconds(t, seconds)
    /\ hist' = Append(hist, "WithSeconds")
    /\ UNCHANGED <<kind, t0, p0, s0, parts, text, err, withMilli, sep>>

DoWithMilli ==
    /\ kind = "value" /\ hist = <<>>
    /\ \E milli \in MilliArgs : arg' = milli /\ t' = WithMilli(t, milli)
    /\ hist' = Append(hist, "WithMilli")
    /\ UNCHANGED <<kind, t0, p0, s0, parts, text, err, withMilli, sep>>

\* text := t.Format(withMilli, milliSeperator)
DoFormat ==
    /\ kind = "value" /\ hist = <<>>
    /\ \E wm \in BOOLEAN, milliSeperator \in Separators :
          /\ withMilli' = wm /\ sep' = milliSeperator
          /\ text' = Format(t, wm, milliSeperator)
    /\ hist' = Append(hist, "Format")
    /\ UNCHANGED <<kind, t0, p0, s0, t, parts, err, arg>>

\* text := t.FormatDot(), which is t.Format(true, ".")
DoFormatDot ==
    /\ kind = "value" /\ hist = <<>>
    /\ withMilli' = TRUE /\ sep' = <<".">>
    /\ text' = FormatDot(t)
    /\ hist' = Append(hist, "FormatDot")
    /\ UNCHANGED <<kind, t0, p0, s0, t, parts, err, arg>>

\* text := t.FormatComma(), which is t.Format(true, ",")
DoFormatComma ==
    /\ kind = "value" /\ hist = <<>>
    /\ withMilli' = TRUE /\ sep' = <<",">>
    /\ text' = FormatComma(t)
    /\ hist' = Append(hist, "FormatComma")
    /\ UNCHANGED <<kind, t0, p0, s0, t, parts, err, arg>>

\* text := t.String(), which is t.FormatDot()
DoString ==
    /\ kind = "value" /\ hist = <<>>
    /\ withMilli' = TRUE /\ sep' = <<".">>
    /\ text' = String(t)
    /\ hist' = Append(hist, "String")
    /\ UNCHANGED <<kind, t0, p0, s0, t, parts, err, arg>>

\* t, err := Parse(text) on what the run formatted
ParseFormatted ==
    /\ kind = "value" /\ Len(hist) = 1
    /\ hist[1] \in {"Format", "FormatDot", "FormatComma", "String"}
    /\ LET r == Parse(text) IN t' = r.t /\ err' = r.err
    /\ hist' = Append(hist, "Parse")
    /\ UNCHANGED <<kind, t0, p0, s0, parts, text, arg, withMilli, sep>>

\* t, err := Parse(str) on the run's string
ParseText ==
    /\ kind = "text" /\ hist = <<>>
    /\ LET r == Parse(s0) IN t' = r.t /\ err' = r.err
    /\ hist' = Append(hist, "Parse")
    /\ UNCHANGED <<kind, t0, p0, s0, parts, text, arg, withMilli, sep>>

NextParams == ComposeParams \/ Decompose
NextValue ==
    \/ Decompose \/ Recompose
    \/ DoWithHours \/ DoWithMinutes \/ DoWithSeconds \/ DoWithMilli
NextFormat ==
    \/ DoFormat \/ DoFormatDot \/ DoFormatComma \/ DoString
    \/ ParseFormatted
NextParse == ParseText

Next == NextParams \/ NextValue \/ NextFormat \/ NextParse

\* FromParams, then the decomposition of its result.
SpecParams == InitParams /\ [][NextParams]_vars
\* Decomposition and recomposition, and the With... methods.
SpecValue == InitValue /\ [][NextValue]_vars
\* Formatting, and parsing the formatted text back.
SpecFormat == InitValue /\ [][NextFormat]_vars
\* Parsing arbitrary text.
SpecParse == InitText /\ [][NextParse]_vars
\* All of the above.
Spec == Init /\ [][Next]_vars

(***************************************************************************)
(* Vocabulary of the properties                                            *)
(***************************************************************************)
\* The value of a word below 2^24 as a number, -1 for a larger word.
SmallVal(w) ==
    IF \A i \in 4..NLimbs : w[i] = 0
    THEN w[1] + w[2] * Base + w[3] * Base * Base
    ELSE -1

\* The int64 word of a number -2^31 < n < 2^31.
SignedW(n) ==
    IF n >= 0 THEN W(n)
    ELSE LET m == n + 2147483647 + 1
         IN  <<m % Base, (m \div Base) % Base, (m \div (Base * Base)) % Base,
               TopBit + m \div (Base * Base * Base),
               Base - 1, Base - 1, Base - 1, Base - 1>>

\* hour*3600000 + minute*60000 + second*1000 + milli, computed without
\* wrapping (in 88 bits), is at most MaxInt64.
FitsInt64(hour, minute, second, milli) ==
    LET wide(w) == w \o <<0, 0, 0>>
        total == AddW(AddW(AddW(MulW(wide(milli), Millisecond),
                                MulW(wide(second), Second)),
                           MulW(wide(minute), Minute)),
                      MulW(wide(hour), Hour))
    IN  /\ \A i \in (NLimbs + 1)..(NLimbs + 3) : total[i] = 0
        /\ total[NLimbs] < TopBit

\* The number written by the two digits of x at positions j and j + 1.
TwoDigits(x, j) == DigitVal(x[j]) * 10 + DigitVal(x[j + 1])

\* The whole of x is a timecode of the grammar: an optional '-', HH in 00..23,
\* ':', MM in 00..59, ':', SS in 00..59, and optionally '.' or ',' and three
\* digits.
IsTimecodeText(x) ==
    LET n == IF Len(x) > 0 /\ x[1] = "-" THEN 1 ELSE 0
    IN  /\ Len(x) - n \in {8, 12}
        /\ \A k \in {1, 2, 4, 5, 7, 8} : x[n + k] \in Digit
        /\ x[n + 3] = ":" /\ x[n + 6] = ":"
        /\ TwoDigits(x, n + 1) <= 23
        /\ TwoDigits(x, n + 4) <= 59
        /\ TwoDigits(x, n + 7) <= 59
        /\ Len(x) - n = 12 =>
              /\ x[n + 9] \in {".", ","}
              /\ \A k \in 10..12 : x[n + k] \in Digit

\* The substrings <<first, last>> of s that are timecodes of the grammar.
GrammarMatches(s) ==
    {ij \in (1..Len(s)) \X (1..Len(s)) :
        ij[1] <= ij[2] /\ IsTimecodeText(SubSeq(s, ij[1], ij[2]))}

\* The leftmost of them, and the longest of those that start there.
LeftmostMatch(s) ==
    CHOOSE ij \in GrammarMatches(s) :
        \A other \in GrammarMatches(s) :
            \/ ij[1] < other[1]
            \/ ij[1] = other[1] /\ ij[2] >= other[2]

\* The milliseconds a timecode text x stands for, as a signed number.
TextMillis(x) ==
    LET n == IF x[1] = "-" THEN 1 ELSE 0
        total == TwoDigits(x, n + 1) * 3600000 + TwoDigits(x, n + 4) * 60000
                     + TwoDigits(x, n + 7) * 1000
                     + (IF Len(x) - n = 12
                        THEN TwoDigits(x, n + 10) * 10 + DigitVal(x[n + 12])
                        ELSE 0)
    IN  IF n = 1 THEN 0 - total ELSE total

WithOps == {"WithHours", "WithMinutes", "WithSeconds", "WithMilli"}
FormatOps == {"Format", "FormatDot", "FormatComma", "String"}

(***************************************************************************)
(* Properties                                                              *)
(***************************************************************************)

\* C1: for every negative flag, hour in 0..10000, minute and second in 0..59
\* and milli in 0..999, HourMinuteSecondMilli of FromParams(negative, hour,
\* minute, second, milli) is exactly (hour, minute, second, milli), and
\* IsNegative of that value is the flag, except that it is false when all four
\* components are zero.
C1_ComponentsRoundTrip ==
    (kind = "params" /\ hist = <<"FromParams", "HourMinuteSecondMilli">>
        /\ p0.hour \in 0..10000 /\ p0.minute \in 0..59
        /\ p0.second \in 0..59 /\ p0.milli \in 0..999)
    => /\ parts.hour = W(p0.hour) /\ parts.minute = W(p0.minute)
       /\ parts.second = W(p0.second) /\ parts.milli = W(p0.milli)
       /\ parts.negative =
            (p0.negative /\ ~(p0.hour = 0 /\ p0.minute = 0
                                /\ p0.second = 0 /\ p0.milli = 0))

C1_Witness ==
    /\ kind = "params" /\ hist = <<"FromParams", "HourMinuteSecondMilli">>
    /\ p0.negative /\ p0.hour = 10000 /\ p0.minute = 59
    /\ p0.second = 59 /\ p0.milli = 999
    /\ parts.negative /\ parts.hour = W(10000) /\ parts.milli = W(999)

\* C2: for every Timecode t of the int64 range, MinInt64 included,
\* FromParams(t.IsNegative(), h, m, s, ms) with (h, m, s, ms) =
\* t.HourMinuteSecondMilli() is t again, and m and s are in 0..59 and ms in
\* 0..999.
C2_ValueRoundTrip ==
    /\ (kind = "value" /\ Len(hist) >= 1 /\ hist[1] = "HourMinuteSecondMilli")
        => /\ SmallVal(parts.minute) \in 0..59
           /\ SmallVal(parts.second) \in 0..59
           /\ SmallVal(parts.milli) \in 0..999
           /\ parts.negative = IsNegative(t0)
    /\ (kind = "value" /\ hist = <<"HourMinuteSecondMilli", "FromParams">>)
        => t = t0

C2_Witness ==
    /\ kind = "value" /\ hist = <<"HourMinuteSecondMilli", "FromParams">>
    /\ t0 = MinInt64 /\ parts.negative /\ parts.milli = W(808) /\ t = MinInt64

\* C3: for every Timecode t whose hour component is in 0..23, whatever its
\* sign, Parse(t.FormatDot()) returns t and no error, and so does
\* Parse(t.FormatComma()).
C3_ParseInvertsFormat ==
    (kind = "value"
        /\ (hist = <<"FormatDot", "Parse">> \/ hist = <<"FormatComma", "Parse">>)
        /\ SmallVal(HourMinuteSecondMilli(t0).hour) \in 0..23)
    => t = t0 /\ ~err

C3_Witness ==
    /\ kind = "value" /\ hist = <<"FormatComma", "Parse">>
    /\ t0 = SignedW(0 - (23 * 3600000 + 59 * 60000 + 59 * 1000 + 999))
    /\ text = <<"-", "2", "3", ":", "5", "9", ":", "5", "9", ",", "9", "9", "9">>
    /\ t = t0 /\ ~err

\* C4: Parse returns an error exactly when no substring of the input is a
\* timecode of the grammar, and with an error it returns Zero.
C4_ErrorIffNoMatch ==
    (kind = "text" /\ hist = <<"Parse">>)
    => /\ err <=> GrammarMatches(s0) = {}
       /\ err => t = Zero

C4_Witness ==
    /\ kind = "text" /\ hist = <<"Parse">>
    /\ s0 = <<"z", "0", "0", ":", "0", "0", ":", "-", "0", "0">>
    /\ err /\ t = Zero

\* C5: for an input with at least one grammar match, Parse returns the
\* Timecode of the leftmost matching substring (the longest one starting
\* there): the text before and after it, later matches included, is ignored.
C5_LeftmostMatchOnly ==
    (kind = "text" /\ hist = <<"Parse">> /\ GrammarMatches(s0) # {})
    => LET ij == LeftmostMatch(s0)
       IN  /\ t = SignedW(TextMillis(SubSeq(s0, ij[1], ij[2])))
           /\ ~err

C5_Witness ==
    /\ kind = "text" /\ hist = <<"Parse">>
    /\ s0 = <<"z", "0", "0", ":", "0", "0", ":", "0", "1", ".", "0", "0", ":", "0", "0", ":", "0", "2", ".">>
    /\ LeftmostMatch(s0) = <<2, 9>>
    /\ t = W(1000) /\ ~err

\* C6: when the first matched HH:MM:SS is not directly followed by '.' or ','
\* and three digits, Parse succeeds with milliseconds 0: it returns
\* sign * (HH*3600000 + MM*60000 + SS*1000) and no error.
C6_MillisDefaultZero ==
    (kind = "text" /\ hist = <<"Parse">> /\ GrammarMatches(s0) # {})
    => LET i == LeftmostMatch(s0)[1]
           j == IF s0[i] = "-" THEN i + 1 ELSE i
           followed ==
               /\ j + 11 <= Len(s0)
               /\ s0[j + 8] \in {".", ","}
               /\ \A k \in 9..11 : s0[j + k] \in Digit
           sign == IF s0[i] = "-" THEN 0 - 1 ELSE 1
       IN  ~followed =>
               /\ ~err
               /\ t = SignedW(sign * (TwoDigits(s0, j) * 3600000
                                        + TwoDigits(s0, j + 3) * 60000
                                        + TwoDigits(s0, j + 6) * 1000))

C6_Witness ==
    /\ kind = "text" /\ hist = <<"Parse">>
    /\ s0 = <<"-", "0", "1", ":", "0", "2", ":", "0", "3", ".", "4", "5">>
    /\ t = SignedW(0 - (3600000 + 2 * 60000 + 3 * 1000)) /\ ~err

\* C7: t.Format(true, sep) is '-' iff t < 0, then the hour of |t| zero-padded
\* to at least two digits, ':', the minute as two digits, ':', the second as
\* two digits, sep, and the millisecond as three digits; t.Format(false, sep)
\* is the same without sep and the millisecond digits, whatever sep is.
C7_FormatLayout ==
    (kind = "value" /\ Len(hist) = 1 /\ hist[1] \in FormatOps)
    => LET c    == HourMinuteSecondMilli(t0)
           n    == IF IsNegative(t0) THEN 1 ELSE 0
           tail == IF withMilli THEN Len(sep) + 3 ELSE 0
           hlen == Len(text) - n - 6 - tail
           h    == n + hlen
       IN  /\ hlen >= 2
           /\ n = 1 => text[1] = "-"
           /\ \A k \in (n + 1)..h : text[k] \in Digit
           /\ hlen > 2 => text[n + 1] # "0"
           /\ DecimalValue(SubSeq(text, n + 1, h), Zero) = c.hour
           /\ text[h + 1] = ":"
           /\ text[h + 2] \in Digit /\ text[h + 3] \in Digit
           /\ W(TwoDigits(text, h + 2)) = c.minute
           /\ text[h + 4] = ":"
           /\ text[h + 5] \in Digit /\ text[h + 6] \in Digit
           /\ W(TwoDigits(text, h + 5)) = c.second
           /\ withMilli =>
                 LET m == h + 6 + Len(sep)
                 IN  /\ SubSeq(text, h + 7, m) = sep
                     /\ \A k \in 1..3 : text[m + k] \in Digit
                     /\ W(TwoDigits(text, m + 1) * 10 + DigitVal(text[m + 3]))
                            = c.milli

C7_Witness ==
    /\ kind = "value" /\ hist = <<"Format">>
    /\ t0 = SignedW(0 - (100 * 3600000 + 999)) /\ withMilli /\ sep = <<"i", "r">>
    /\ text = <<"-", "1", "0", "0", ":", "0", "0", ":", "0", "0", "i", "r", "9", "9", "9">>

\* C8 as claimed: for every Timecode t and every in-range replacement value,
\* the With... methods return a Timecode whose decomposition is that of t with
\* only the named component replaced, and whose sign is that of t.
C8_AsClaimed ==
    (kind = "value" /\ Len(hist) = 2 /\ hist[1] \in WithOps
        /\ hist[2] = "HourMinuteSecondMilli"
        /\ (hist[1] \in {"WithMinutes", "WithSeconds"} => SmallVal(arg) \in 0..59)
        /\ (hist[1] = "WithMilli" => SmallVal(arg) \in 0..999))
    => LET c == HourMinuteSecondMilli(t0)
       IN  /\ parts.hour = (IF hist[1] = "WithHours" THEN arg ELSE c.hour)
           /\ parts.minute = (IF hist[1] = "WithMinutes" THEN arg ELSE c.minute)
           /\ parts.second = (IF hist[1] = "WithSeconds" THEN arg ELSE c.second)
           /\ parts.milli = (IF hist[1] = "WithMilli" THEN arg ELSE c.milli)
           /\ parts.negative = IsNegative(t0)

\* C8 amended: the same, provided the recomposed total hour*3600000 +
\* minute*60000 + second*1000 + milli does not exceed MaxInt64; and the sign
\* is that of t unless all four resulting components are zero, when the
\* result is Zero and not negative.
C8_WithReplacesOneComponent ==
    (kind = "value" /\ Len(hist) = 2 /\ hist[1] \in WithOps
        /\ hist[2] = "HourMinuteSecondMilli"
        /\ (hist[1] \in {"WithMinutes", "WithSeconds"} => SmallVal(arg) \in 0..59)
        /\ (hist[1] = "WithMilli" => SmallVal(arg) \in 0..999))
    => LET c == HourMinuteSecondMilli(t0)
           hour   == IF hist[1] = "WithHours" THEN arg ELSE c.hour
           minute == IF hist[1] = "WithMinutes" THEN arg ELSE c.minute
           second == IF hist[1] = "WithSeconds" THEN arg ELSE c.second
           milli  == IF hist[1] = "WithMilli" THEN arg ELSE c.milli
       IN  FitsInt64(hour, minute, second, milli) =>
               /\ parts.hour = hour /\ parts.minute = minute
               /\ parts.second = second /\ parts.milli = milli
               /\ parts.negative =
                    (IsNegative(t0) /\ ~(hour = Zero /\ minute = Zero
                                           /\ second = Zero /\ milli = Zero))

C8_Witness ==
    /\ kind = "value" /\ hist = <<"WithSeconds", "HourMinuteSecondMilli">>
    /\ t0 = SignedW(0 - (23 * 3600000 + 59 * 60000 + 999)) /\ arg = W(59)
    /\ parts = [negative |-> TRUE, hour |-> W(23), minute |-> W(59),
                second |-> W(59), milli |-> W(999)]

\* C9: for every Timecode t whose hour component is 24 or more,
\* Parse(t.FormatDot()) never returns t.
C9_NoRoundTripFrom24Hours ==
    (kind = "value" /\ hist = <<"FormatDot", "Parse">>
        /\ SmallVal(HourMinuteSecondMilli(t0).hour) \notin 0..23)
    => t # t0

C9_Witness ==
    /\ kind = "value" /\ hist = <<"FormatDot", "Parse">>
    /\ t0 = W(24 * 3600000 + 59 * 1000)
    /\ text = <<"2", "4", ":", "0", "0", ":", "5", "9", ".", "0", "0", "0">>
    /\ err /\ t = Zero

\* C10: for every Timecode t, of either sign, whose hour component is 100 or
\* more with its last two decimal digits in 00..23, Parse(t.FormatDot())
\* returns no error and a non-negative Timecode whose hour is those two digits
\* and whose minute, second and milli are those of t.
C10_ParseKeepsLastTwoHourDigits ==
    LET c0   == HourMinuteSecondMilli(t0)
        last == RemW(c0.hour, 100)
    IN  (kind = "value" /\ hist = <<"FormatDot", "Parse">>
            /\ SmallVal(c0.hour) \notin 0..99 /\ last \in 0..23)
        => /\ ~err
           /\ ~IsNegative(t)
           /\ HourMinuteSecondMilli(t) =
                [hour |-> W(last), minute |-> c0.minute,
                 second |-> c0.second, milli |-> c0.milli]

C10_Witness ==
    /\ kind = "value" /\ hist = <<"FormatDot", "Parse">>
    /\ t0 = SignedW(0 - (123 * 3600000 + 59 * 60000 + 59 * 1000 + 999))
    /\ t = W(23 * 3600000 + 59 * 60000 + 59 * 1000 + 999) /\ ~err

====
